---- MODULE Spec2Model ----
(***************************************************************************)
(* Model of TelevisionControl/base.py: the Television class (one remote-   *)
(* control facade over a Roku session or an Android TV session, with a     *)
(* lazily resolved mute cache) and the start-up of TelevisionGUI.          *)
(*                                                                         *)
(* Python values are modelled as strings: None is "None", the booleans are *)
(* "True" and "False".  A session object is a record naming its class and  *)
(* the host it was built for; the unset attribute is NoneObj.              *)
(*                                                                         *)
(* Every call that leaves the class (library constructors, the adb         *)
(* subprocess, key files, protocol commands) is an external step.  Each    *)
(* operation logs its external steps in order; the environment picks, per  *)
(* operation, which step (if any) fails.                                   *)
(*                                                                         *)
(* Two things outside the process are part of the state: the signing key   *)
(* pair at ~/.android/adbkey ("absent", "original" for a pair that was     *)
(* there before the program ran, "regenerated" for one written by keygen), *)
(* and the mute state the Android TV set is really in.                     *)
(*                                                                         *)
(* The module is used in one of two ways: run as a script, it builds the   *)
(* panel and nothing else (base.py:232-233); imported, its caller drives   *)
(* Television objects directly.                                            *)
(***************************************************************************)
EXTENDS Integers, Sequences, FiniteSets, TLC

VARIABLES tv, last, gui, adbkey, androidMuted

vars == <<tv, last, gui, adbkey, androidMuted>>

\* Longest chain of external steps one operation can make (Android connect:
\* subprocess, keygen, two key reads, signer, session, handshake, query).
MaxSteps == 8

\* The Television objects a caller of the class holds: one per supported OS.
Callers == {"TopTV", "RightTV"}

\* The devices the panel builds (base.py:142-146) and their operating systems.
PanelNames == <<"TopTV", "RightTV", "LeftTV">>

PanelNameSet == {PanelNames[i] : i \in 1..Len(PanelNames)}

OSOf(name) == IF name = "TopTV" THEN "roku" ELSE "android"

\* Values an address argument can take: os.getenv of an unset variable is None.
Addresses == {"None", "192.168.1.10"}

\* What the Android property query reports under 'is_volume_muted'.
PropValues == {"True", "False", "None"}

\* The environment of one operation: f is the index of the external step that
\* fails (0: none), silent tells whether a failing ADB handshake reports the
\* failure in its (discarded) return value instead of raising, prop is the
\* value a property query reports.  An operation that makes n external steps
\* when nothing fails has n places to fail; silent and prop are varied only
\* for the Android objects, the only ones that read them.
Envs(operating_system, n) ==
    [f : 0..(IF n < MaxSteps THEN n ELSE MaxSteps),
     silent : IF operating_system \in {"android", "Android"} THEN BOOLEAN ELSE {FALSE},
     prop : IF operating_system \in {"android", "Android"} THEN PropValues ELSE {"None"}]

\* The environment in which no external step fails.
NoFailure == [f |-> 0, silent |-> FALSE, prop |-> "False"]

NoneObj == [obj |-> "None", host |-> "None"]

RokuObj(ip) == [obj |-> "Roku", host |-> ip]

AndroidObj(ip) == [obj |-> "AndroidTVSync", host |-> ip]

\* Python truthiness of an attribute holding None or a session object.
Truthy(h) == h.obj # "None"

\* str.lower() on the operating-system strings the model uses.
Lower(s) ==
    CASE s = "Roku" -> "roku"
      [] s = "Android" -> "android"
      [] OTHER -> s

\* Television.__init__ without an address: the object after construction.
NewTelevision(name, operating_system) ==
    [name |-> name, operating_system |-> operating_system,
     roku |-> NoneObj, android |-> NoneObj, muted |-> "None"]

\* Python's not, on the booleans.
Negate(b) == IF b = "True" THEN "False" ELSE "True"

\* The running state of one operation: the object, the external steps made so
\* far, the exception in flight ("none" while running normally), the value of
\* the last property read, whether an underlying step has failed, the key
\* pair on disk, the real mute state of the Android TV set, and whether every
\* property query so far reported that real state.
Begin(t) ==
    [tv |-> t, calls |-> <<>>, exc |-> "none", ret |-> "None", failed |-> FALSE,
     key |-> adbkey, real |-> androidMuted, truthful |-> TRUE]

\* One external step that raises when it fails.  A step on a session built
\* for no host (Roku(None)) cannot reach a device and always fails.
Step(c, kind, cmd, e, hostless) ==
    IF c.exc # "none" THEN c
    ELSE LET bad == (Len(c.calls) + 1 = e.f) \/ hostless
         IN [c EXCEPT !.calls = Append(@, <<kind, cmd>>),
                      !.failed = @ \/ bad,
                      !.exc = IF bad THEN "TransportError" ELSE "none"]

\* One external step whose failure is reported in a result the code discards.
StatusStep(c, kind, cmd, e) ==
    IF c.exc # "none" THEN c
    ELSE LET bad == (Len(c.calls) + 1 = e.f)
         IN [c EXCEPT !.calls = Append(@, <<kind, cmd>>),
                      !.failed = @ \/ bad]

\* A protocol command on the Roku session.
RokuCall(c, cmd, e) == Step(c, "roku", cmd, e, c.tv.roku.host = "None")

\* A protocol command on the Android session.  A mute command that gets
\* through toggles the mute state of the TV set.
AndroidCall(c, cmd, e) ==
    LET c1 == Step(c, "android", cmd, e, FALSE)
    IN IF c.exc = "none" /\ c1.exc = "none" /\ cmd = "mute_volume"
       THEN [c1 EXCEPT !.real = Negate(@)]
       ELSE c1

\* adb_shell's keygen(path): writes a new key pair at the path.
Keygen(c, e) ==
    LET c1 == Step(c, "os", "keygen", e, FALSE)
    IN IF c.exc = "none" /\ c1.exc = "none"
       THEN [c1 EXCEPT !.key = "regenerated"]
       ELSE c1

\* The getter with the Roku probe's two commands in the opposite order.
muted_get_probe_swapped(c, e) ==
    IF c.exc # "none" THEN c
    ELSE IF c.tv.muted = "None"
    THEN IF Truthy(c.tv.roku)
         THEN LET c1 == RokuCall(c, "volume_down", e)
                  c2 == RokuCall(c1, "volume_up", e)
              IN IF c2.exc # "none" THEN c2
                 ELSE [c2 EXCEPT !.tv.muted = "False", !.ret = "False"]
         ELSE IF Truthy(c.tv.android)
         THEN LET c1 == AndroidCall(c, "get_properties_dict", e)
              IN IF c1.exc # "none" THEN c1
                 ELSE [c1 EXCEPT !.tv.muted = e.prop, !.ret = e.prop,
                                 !.truthful = @ /\ (e.prop = c1.real)]
         ELSE [c EXCEPT !.ret = "None"]
    ELSE [c EXCEPT !.ret = c.tv.muted]

\* The getter without its test of the cache: it resolves the state every time.
muted_get_uncached(c, e) ==
    IF c.exc # "none" THEN c
    ELSE IF Truthy(c.tv.roku)
    THEN LET c1 == RokuCall(c, "volume_up", e)
             c2 == RokuCall(c1, "volume_down", e)
         IN IF c2.exc # "none" THEN c2
            ELSE [c2 EXCEPT !.tv.muted = "False", !.ret = "False"]
    ELSE IF Truthy(c.tv.android)
    THEN LET c1 == AndroidCall(c, "get_properties_dict", e)
         IN IF c1.exc # "none" THEN c1
            ELSE [c1 EXCEPT !.tv.muted = e.prop, !.ret = e.prop,
                            !.truthful = @ /\ (e.prop = c1.real)]
    ELSE [c EXCEPT !.ret = c.tv.muted]

\* Television.muted (getter).
muted_get(c, e) ==
    IF c.exc # "none" THEN c
    ELSE IF c.tv.muted = "None"
    THEN IF Truthy(c.tv.roku)
         THEN LET c1 == RokuCall(c, "volume_up", e)
                  c2 == RokuCall(c1, "volume_down", e)
              IN IF c2.exc # "none" THEN c2
                 ELSE [c2 EXCEPT !.tv.muted = "False", !.ret = "False"]
         ELSE IF Truthy(c.tv.android)
         THEN LET c1 == AndroidCall(c, "get_properties_dict", e)
              IN IF c1.exc # "none" THEN c1
                 ELSE [c1 EXCEPT !.tv.muted = e.prop, !.ret = e.prop,
                                 !.truthful = @ /\ (e.prop = c1.real)]
         ELSE [c EXCEPT !.ret = "None"]
    ELSE [c EXCEPT !.ret = c.tv.muted]

\* Television.muted (setter).
muted_set(c, value) ==
    IF c.exc # "none" THEN c ELSE [c EXCEPT !.tv.muted = value]

\* An exception raised by the Python code itself.
Raise(c, exc) == IF c.exc # "none" THEN c ELSE [c EXCEPT !.exc = exc]

\* Television.connect, lines 33-35: the Roku branch.
connect_roku(c, ip_address, e) ==
    LET r == Step(c, "lib", "Roku", e, FALSE)
    IN IF r.exc # "none" THEN r
       ELSE [r EXCEPT !.tv.roku = RokuObj(ip_address)]

\* The Android branch generating a key pair only when none is on disk.
connect_android_keygen_if_absent(c, ip_address, e) ==
    IF ip_address = "None"
    THEN Raise(c, "TypeError")
    ELSE LET a1 == StatusStep(c, "os", "adb connect", e)
             a2 == IF a1.key = "absent" THEN Keygen(a1, e) ELSE a1
             a3 == Step(a2, "os", "read adbkey", e, FALSE)
             a4 == Step(a3, "os", "read adbkey.pub", e, FALSE)
             a5 == Step(a4, "lib", "PythonRSASigner", e, FALSE)
             a6 == Step(a5, "lib", "AndroidTVSync", e, FALSE)
             a7 == IF a6.exc # "none" THEN a6
                   ELSE [a6 EXCEPT !.tv.android = AndroidObj(ip_address)]
         IN IF e.silent
            THEN StatusStep(a7, "android", "adb_connect", e)
            ELSE AndroidCall(a7, "adb_connect", e)

\* Television.connect, lines 36-54: the Android branch.  The command string
\* is built by concatenation, which raises TypeError when the address is
\* None; the exit status of the adb subprocess is not looked at; keygen is
\* called whether or not a key pair exists.
connect_android(c, ip_address, e) ==
    IF ip_address = "None"
    THEN Raise(c, "TypeError")
    ELSE LET a1 == StatusStep(c, "os", "adb connect", e)
             a2 == Keygen(a1, e)
             a3 == Step(a2, "os", "read adbkey", e, FALSE)
             a4 == Step(a3, "os", "read adbkey.pub", e, FALSE)
             a5 == Step(a4, "lib", "PythonRSASigner", e, FALSE)
             a6 == Step(a5, "lib", "AndroidTVSync", e, FALSE)
             a7 == IF a6.exc # "none" THEN a6
                   ELSE [a6 EXCEPT !.tv.android = AndroidObj(ip_address)]
         IN IF e.silent
            THEN StatusStep(a7, "android", "adb_connect", e)
            ELSE AndroidCall(a7, "adb_connect", e)

\* connect taking the Roku branch whatever the operating system.
connect_os_blind(c, ip_address, e) ==
    LET c1 == connect_roku(c, ip_address, e)
        c2 == muted_get(c1, e)
    IN Raise(c2, "TypeError")

\* Television.connect.  Its last statement is self.muted(False): the property
\* is read (the getter runs) and the value read, a bool or None, is called,
\* which raises TypeError; the setter is not involved.
connect(c, ip_address, e) ==
    LET c1 == IF Lower(c.tv.operating_system) = "roku"
              THEN connect_roku(c, ip_address, e)
              ELSE IF Lower(c.tv.operating_system) = "android"
              THEN connect_android(c, ip_address, e)
              ELSE c
        c2 == muted_get(c1, e)
    IN Raise(c2, "TypeError")

\* The constructor without its validation of the operating system.
Television_unvalidated(name, operating_system, ip_address, e) ==
    LET c == Begin(NewTelevision(name, operating_system))
    IN IF ip_address # "None" THEN connect(c, ip_address, e) ELSE c

\* Television.__init__: the operating system is validated first; with an
\* address the new object connects at once.
Television(name, operating_system, ip_address, e) ==
    LET c == Begin(NewTelevision(name, operating_system))
    IN IF Lower(operating_system) \notin {"roku", "android"}
       THEN Raise(c, "ValueError")
       ELSE IF ip_address # "None" THEN connect(c, ip_address, e) ELSE c

\* Television.toggle_mute.
toggle_mute(c, e) ==
    LET c1 == IF Truthy(c.tv.roku) THEN RokuCall(c, "volume_mute", e)
              ELSE IF Truthy(c.tv.android) THEN AndroidCall(c, "mute_volume", e)
              ELSE c
        c2 == muted_get(c1, e)
    IN IF c2.ret = "True" THEN muted_set(c2, "False") ELSE muted_set(c2, "True")

\* mute() without its test of the cache: it toggles every time.
mute_unguarded(c, e) ==
    LET c1 == muted_get(c, e)
        c2 == toggle_mute(c1, e)
    IN muted_set(c2, "True")

\* Television.mute.
mute(c, e) ==
    LET c1 == muted_get(c, e)
        c2 == IF c1.exc = "none" /\ c1.ret # "True" THEN toggle_mute(c1, e) ELSE c1
    IN muted_set(c2, "True")

\* unmute() with its test of the cache negated.
unmute_negated(c, e) ==
    LET c1 == muted_get(c, e)
        c2 == IF c1.exc = "none" /\ c1.ret # "True" THEN toggle_mute(c1, e) ELSE c1
    IN muted_set(c2, "False")

\* Television.unmute.
unmute(c, e) ==
    LET c1 == muted_get(c, e)
        c2 == IF c1.exc = "none" /\ c1.ret = "True" THEN toggle_mute(c1, e) ELSE c1
    IN muted_set(c2, "False")

\* The six navigation commands.
NavCommands == {"right", "left", "down", "up", "select", "back"}

\* The mapping that sends every command under its own name.
AndroidPrimitive_same_name(cmd) == cmd

\* The primitive a navigation command maps to on the Android session.
AndroidPrimitive(cmd) == IF cmd = "select" THEN "enter" ELSE cmd

\* A navigation command that consults the mute cache first.
navigate_reading_cache(c, cmd, e) ==
    LET c0 == muted_get(c, e)
    IN IF Truthy(c0.tv.roku) THEN RokuCall(c0, cmd, e)
       ELSE IF Truthy(c0.tv.android) THEN AndroidCall(c0, AndroidPrimitive(cmd), e)
       ELSE c0

\* Television.right / left / down / up / select / back.
navigate(c, cmd, e) ==
    IF Truthy(c.tv.roku) THEN RokuCall(c, cmd, e)
    ELSE IF Truthy(c.tv.android) THEN AndroidCall(c, AndroidPrimitive(cmd), e)
    ELSE c

\* The record kept of the most recent operation on a caller's object.
\* op, dev, arg, os: the call; pre, preKey, preReal: the object, the key pair
\* and the TV set before it; calls, exc, ret, failed, truthful: how it ran;
\* afterConnect: it directly follows, on the same object, a
\* connect to an address in which no underlying step failed.
Done(op, d, arg, c) ==
    [op |-> op, dev |-> d, arg |-> arg, os |-> c.tv.operating_system,
     pre |-> tv[d], preKey |-> adbkey, preReal |-> androidMuted,
     calls |-> c.calls, exc |-> c.exc, ret |-> c.ret, failed |-> c.failed,
     truthful |-> c.truthful,
     afterConnect |-> last.op = "connect" /\ last.dev = d /\ last.arg # "None"
                      /\ ~last.failed]

NoOp == [op |-> "none", dev |-> "TopTV", arg |-> "None", os |-> "roku",
         pre |-> NewTelevision("TopTV", "roku"), preKey |-> "absent", preReal |-> "False",
         calls |-> <<>>, exc |-> "none", ret |-> "None", failed |-> FALSE,
         truthful |-> TRUE, afterConnect |-> FALSE]

\* TelevisionGUI before it is constructed.
NewPanel ==
    [pc |-> "new",
     tvs |-> [n \in PanelNameSet |-> NewTelevision(n, OSOf(n))],
     attempted |-> {}, exc |-> "none", popups |-> 0]

Init ==
    /\ tv = [d \in Callers |-> NewTelevision(d, OSOf(d))]
    /\ last = NoOp
    /\ gui = NewPanel
    /\ adbkey \in {"absent", "original"}
    /\ androidMuted \in {"True", "False"}

\* Television objects share no state, so a run of the importing caller stays
\* with the object it started with; the caller runs only when the module was
\* not started as a script.
Using(d) == gui.pc = "new" /\ (last.op = "none" \/ last.dev = d)

\* What an operation leaves outside the process.
World(c) == adbkey' = c.key /\ androidMuted' = c.real

\* The operating-system strings a caller passes when building object d: the
\* device's own, in either case, and one that is not supported.
OSChoices(d) ==
    IF OSOf(d) = "roku" THEN {"roku", "Roku", "webos"} ELSE {"android", "Android", "webos"}

\* A caller runs Television(d, operating_system, ip_address) and, when the
\* constructor returns, keeps the new object in place of the old one.
Construct(d, operating_system, ip, e) ==
    LET c == Television(d, operating_system, ip, e)
    IN /\ Using(d)
       /\ tv' = IF c.exc = "none" THEN [tv EXCEPT ![d] = c.tv] ELSE tv
       /\ last' = Done("__init__", d, ip, c)
       /\ World(c)
       /\ UNCHANGED gui

\* A caller runs television.connect(ip_address).
Connect(d, ip, e) ==
    LET c == connect(Begin(tv[d]), ip, e)
    IN /\ Using(d)
       /\ tv' = [tv EXCEPT ![d] = c.tv]
       /\ last' = Done("connect", d, ip, c)
       /\ World(c)
       /\ UNCHANGED gui

\* A caller reads television.muted.
ReadMuted(d, e) ==
    LET c == muted_get(Begin(tv[d]), e)
    IN /\ Using(d)
       /\ tv' = [tv EXCEPT ![d] = c.tv]
       /\ last' = Done("muted", d, "None", c)
       /\ World(c)
       /\ UNCHANGED gui

\* A caller assigns television.muted = value.
WriteMuted(d, value) ==
    LET c == muted_set(Begin(tv[d]), value)
    IN /\ Using(d)
       /\ tv' = [tv EXCEPT ![d] = c.tv]
       /\ last' = Done("muted=", d, value, c)
       /\ World(c)
       /\ UNCHANGED gui

\* A caller runs television.toggle_mute().
ToggleMute(d, e) ==
    LET c == toggle_mute(Begin(tv[d]), e)
    IN /\ Using(d)
       /\ tv' = [tv EXCEPT ![d] = c.tv]
       /\ last' = Done("toggle_mute", d, "None", c)
       /\ World(c)
       /\ UNCHANGED gui

\* A caller runs television.mute().
Mute(d, e) ==
    LET c == mute(Begin(tv[d]), e)
    IN /\ Using(d)
       /\ tv' = [tv EXCEPT ![d] = c.tv]
       /\ last' = Done("mute", d, "None", c)
       /\ World(c)
       /\ UNCHANGED gui

\* A caller runs television.unmute().
Unmute(d, e) ==
    LET c == unmute(Begin(tv[d]), e)
    IN /\ Using(d)
       /\ tv' = [tv EXCEPT ![d] = c.tv]
       /\ last' = Done("unmute", d, "None", c)
       /\ World(c)
       /\ UNCHANGED gui

\* A caller runs one of the navigation commands.
Navigate(d, cmd, e) ==
    LET c == navigate(Begin(tv[d]), cmd, e)
    IN /\ Using(d)
       /\ tv' = [tv EXCEPT ![d] = c.tv]
       /\ last' = Done(cmd, d, "None", c)
       /\ World(c)
       /\ UNCHANGED gui

\* TelevisionGUI.__init__, lines 142-146: the three objects are built, none
\* with an address, so no connect runs inside a constructor.
PanelConstruct ==
    /\ gui.pc = "new"
    /\ last = NoOp
    /\ gui' = [NewPanel EXCEPT !.pc = "connect"]
    /\ UNCHANGED <<tv, last, adbkey, androidMuted>>

\* TelevisionGUI.__init__, lines 147-149: the next connect statement, with the
\* address the environment holds for that device.  No connect is guarded, so
\* an exception leaves __init__; after the third connect returns the window
\* is laid out and the command loop is entered.
PanelConnect(ip, e) ==
    /\ gui.pc = "connect"
    /\ LET n == PanelNames[Cardinality(gui.attempted) + 1]
           c == connect(Begin(gui.tvs[n]), ip, e)
           g == [gui EXCEPT !.tvs[n] = c.tv, !.attempted = @ \cup {n}]
       IN /\ gui' = IF c.exc # "none"
                    THEN [g EXCEPT !.pc = "aborted", !.exc = c.exc]
                    ELSE IF g.attempted = PanelNameSet
                    THEN [g EXCEPT !.pc = "loop"]
                    ELSE g
       /\ World(c)
    /\ UNCHANGED <<tv, last>>

\* The environments in which no external step fails, one per value the
\* property query can report.
Quiet == {[NoFailure EXCEPT !.prop = p] : p \in PropValues}

\* The environments worth trying for an operation on object t, given its
\* failure-free runs: one per place the longest of them can fail.
EnvsOf(t, runs) ==
    LET lens == {Len(r.calls) : r \in runs}
    IN Envs(t.operating_system, CHOOSE n \in lens : \A m \in lens : m <= n)

Next ==
    \/ \E d \in Callers, ip \in Addresses :
          \E os \in OSChoices(d) :
          \E e \in EnvsOf(NewTelevision(d, os), {Television(d, os, ip, x) : x \in Quiet}) :
             Construct(d, os, ip, e)
    \/ \E d \in Callers, ip \in Addresses :
          \E e \in EnvsOf(tv[d], {connect(Begin(tv[d]), ip, x) : x \in Quiet}) : Connect(d, ip, e)
    \/ \E d \in Callers :
          \E e \in EnvsOf(tv[d], {muted_get(Begin(tv[d]), x) : x \in Quiet}) : ReadMuted(d, e)
    \/ \E d \in Callers, v \in {"True", "False"} : WriteMuted(d, v)
    \/ \E d \in Callers :
          \E e \in EnvsOf(tv[d], {toggle_mute(Begin(tv[d]), x) : x \in Quiet}) : ToggleMute(d, e)
    \/ \E d \in Callers :
          \E e \in EnvsOf(tv[d], {mute(Begin(tv[d]), x) : x \in Quiet}) : Mute(d, e)
    \/ \E d \in Callers :
          \E e \in EnvsOf(tv[d], {unmute(Begin(tv[d]), x) : x \in Quiet}) : Unmute(d, e)
    \/ \E d \in Callers, cmd \in NavCommands :
          \E e \in EnvsOf(tv[d], {navigate(Begin(tv[d]), cmd, x) : x \in Quiet}) : Navigate(d, cmd, e)
    \/ PanelConstruct
    \/ \E ip \in Addresses :
          \E e \in Envs(OSOf(PanelNames[Cardinality(gui.attempted) + 1]), MaxSteps) :
             PanelConnect(ip, e)

Spec == Init /\ [][Next]_vars

(***************************************************************************)
(* Vocabulary of the properties.                                           *)
(***************************************************************************)

\* The object holds a session.
Connected(t) == Truthy(t.roku) \/ Truthy(t.android)

\* The session attribute that belongs to the object's operating system.
OwnHandle(t) == IF Lower(t.operating_system) = "roku" THEN t.roku ELSE t.android

\* How many times step x occurs in a log.
Count(calls, x) == Cardinality({i \in 1..Len(calls) : calls[i] = x})

\* The mute-toggle commands in a log.
MuteToggles(calls) ==
    Count(calls, <<"roku", "volume_mute">>) + Count(calls, <<"android", "mute_volume">>)

\* The commands sent over a protocol session, in order.
ProtocolCalls(calls) == SelectSeq(calls, LAMBDA x : x[1] \in {"roku", "android"})

CommandOps == NavCommands \cup {"mute", "unmute", "toggle_mute"}

\* The object the last operation ran on, as it is now.
Now == tv[last.dev]

(***************************************************************************)
(* C1.  A connect in which an underlying step fails must fail and leave    *)
(* the session handle unset.  Stated for an object that held no session    *)
(* before the call, so that a handle found afterwards was written by it,   *)
(* for a connect to an address, and without insisting on the exception's   *)
(* type.                                                                   *)
(***************************************************************************)
C1_FailedConnectLeavesHandleUnset ==
    (last.op = "connect" /\ last.failed /\ ~Connected(last.pre) /\ last.arg # "None")
        => (last.exc # "none" /\ ~Connected(Now))

(***************************************************************************)
(* C2.  A connect to an address in which every underlying step succeeds    *)
(* returns normally, with the handle of the object's operating system set  *)
(* and the mute cache false, whatever the cache held before.               *)
(***************************************************************************)
C2_SuccessfulConnectReturns ==
    (last.op = "connect" /\ ~last.failed /\ last.arg # "None")
        => (last.exc = "none" /\ Truthy(OwnHandle(Now)) /\ Now.muted = "False")

(***************************************************************************)
(* C3.  A command on an object that holds no session fails (it does not    *)
(* return normally) and sends nothing.                                     *)
(***************************************************************************)
C3_CommandWithoutSessionFails ==
    (last.op \in CommandOps /\ ~Connected(last.pre))
        => (last.exc # "none" /\ ProtocolCalls(last.calls) = <<>>)

(***************************************************************************)
(* C4.  On a connected object mute() sends no mute-toggle when the cache   *)
(* is true and exactly one when it is false; when it returns the cache is  *)
(* true.                                                                   *)
(***************************************************************************)
C4_MuteIdempotent ==
    (last.op = "mute" /\ Connected(last.pre))
        => /\ last.pre.muted = "True" => MuteToggles(last.calls) = 0
           /\ last.pre.muted = "False" => MuteToggles(last.calls) = 1
           /\ last.exc = "none" => Now.muted = "True"

C4_Witness ==
    /\ last.op = "mute" /\ Connected(last.pre) /\ last.pre.muted = "False"
    /\ last.exc = "none" /\ MuteToggles(last.calls) = 1 /\ Now.muted = "True"

(***************************************************************************)
(* C5.  On a connected object unmute() sends no mute-toggle when the cache *)
(* is false and exactly one when it is true; when it returns the cache is  *)
(* false.                                                                  *)
(***************************************************************************)
C5_UnmuteIdempotent ==
    (last.op = "unmute" /\ Connected(last.pre))
        => /\ last.pre.muted = "False" => MuteToggles(last.calls) = 0
           /\ last.pre.muted = "True" => MuteToggles(last.calls) = 1
           /\ last.exc = "none" => Now.muted = "False"

C5_Witness ==
    /\ last.op = "unmute" /\ Connected(last.pre) /\ last.pre.muted = "True"
    /\ last.exc = "none" /\ MuteToggles(last.calls) = 1 /\ Now.muted = "False"

(***************************************************************************)
(* C6.  toggle_mute() on a connected object sends exactly one protocol     *)
(* command, whatever the cache held.                                       *)
(***************************************************************************)
C6_ToggleSendsOneCommand ==
    (last.op = "toggle_mute" /\ Connected(last.pre))
        => Len(ProtocolCalls(last.calls)) = 1

(***************************************************************************)
(* C7.  A connect of an Android object in which every underlying step      *)
(* succeeds sends no property query, and a read of the cache that directly *)
(* follows it returns false and sends nothing.                             *)
(***************************************************************************)
C7_NoQueryUntilRead ==
    /\ (last.op = "connect" /\ Lower(last.pre.operating_system) = "android"
          /\ ~last.failed /\ last.arg # "None")
         => Count(last.calls, <<"android", "get_properties_dict">>) = 0
    /\ (last.op = "muted" /\ Lower(last.pre.operating_system) = "android"
          /\ last.afterConnect /\ last.exc = "none")
         => (last.ret = "False" /\ last.calls = <<>>)

(***************************************************************************)
(* C8.  Reading the cache of a Roku object that holds a session, while the *)
(* cache is unknown, sends volume-up then volume-down and nothing else,    *)
(* and when the read returns the cache is false.                           *)
(***************************************************************************)
C8_RokuProbe ==
    (last.op = "muted" /\ Truthy(last.pre.roku) /\ last.pre.muted = "None")
        => /\ last.calls \in {<<<<"roku", "volume_up">>>>,
                              <<<<"roku", "volume_up">>, <<"roku", "volume_down">>>>}
           /\ last.exc = "none" =>
                /\ last.calls = <<<<"roku", "volume_up">>, <<"roku", "volume_down">>>>
                /\ Now.muted = "False"
                /\ last.ret = "False"

C8_Witness ==
    /\ last.op = "muted" /\ Truthy(last.pre.roku) /\ last.pre.muted = "None"
    /\ last.exc = "none" /\ Len(last.calls) = 2 /\ Now.muted = "False"

(***************************************************************************)
(* C9.  Panel start-up is never aborted by a connect that fails, and the   *)
(* command loop is entered with a connect attempted on every device.       *)
(***************************************************************************)
C9_StartupSurvivesFailedConnect ==
    /\ gui.pc \in {"new", "connect", "loop"}
    /\ gui.pc = "loop" => gui.attempted = PanelNameSet

(***************************************************************************)
(* The command loop of TelevisionGUI (base.py:167-188) is never entered:   *)
(* the first connect of start-up always raises.                            *)
(***************************************************************************)
CommandLoopNeverEntered == gui.pc # "loop"

(***************************************************************************)
(* Vocabulary of the later properties.                                     *)
(***************************************************************************)

\* The last operation ran connect on an Android object with an address:
\* a connect call, or a construction with an address.
AndroidConnectRan ==
    /\ last.op \in {"connect", "__init__"}
    /\ last.os \in {"android", "Android"}
    /\ last.arg # "None"

\* Every Television object there is: the caller's and the panel's.
AllObjects == {tv[d] : d \in Callers} \cup {gui.tvs[n] : n \in PanelNameSet}

\* The commands that concern the mute state.
MuteStateCalls ==
    {"volume_mute", "mute_volume", "volume_up", "volume_down", "get_properties_dict"}

(***************************************************************************)
(* C12, as claimed.  connect on an Android object generates a key pair     *)
(* only when none is on disk: when one exists it makes no key-generation   *)
(* call and the pair on disk stays the one that was there.                 *)
(***************************************************************************)
C12_KeygenOnlyWhenAbsent ==
    AndroidConnectRan =>
        /\ last.preKey # "absent" =>
               (Count(last.calls, <<"os", "keygen">>) = 0 /\ adbkey = last.preKey)
        /\ last.preKey = "absent" => Count(last.calls, <<"os", "keygen">>) = 1

(***************************************************************************)
(* C12, amended.  connect on an Android object makes exactly one           *)
(* key-generation call each time, whether or not a key pair is on disk;    *)
(* when that call succeeds the pair on disk is the new one, and when it    *)
(* fails the pair on disk is untouched.                                    *)
(***************************************************************************)
C12_KeygenEveryConnect ==
    AndroidConnectRan =>
        /\ Count(last.calls, <<"os", "keygen">>) = 1
        /\ last.calls[2] = <<"os", "keygen">>
        /\ Len(last.calls) >= 3 => adbkey = "regenerated"
        /\ Len(last.calls) = 2 => adbkey = last.preKey

C12_Witness ==
    /\ AndroidConnectRan /\ last.op = "connect" /\ last.preKey = "original"
    /\ Len(last.calls) >= 3 /\ adbkey = "regenerated"

(***************************************************************************)
(* C13.  Constructing an object with an operating system other than Roku   *)
(* or Android fails at once with the configuration error (ValueError in    *)
(* the code), before any step of connect, address or no address: nothing   *)
(* external is called, no object replaces the caller's and the key pair    *)
(* is untouched.                                                           *)
(***************************************************************************)
C13_UnsupportedOSRejected ==
    (last.op = "__init__" /\ last.os \notin {"roku", "Roku", "android", "Android"})
        => /\ last.exc = "ValueError"
           /\ last.calls = <<>>
           /\ Now = last.pre
           /\ adbkey = last.preKey

C13_Witness ==
    /\ last.op = "__init__" /\ last.os = "webos" /\ last.arg # "None"
    /\ last.exc = "ValueError" /\ last.calls = <<>>

(***************************************************************************)
(* C14.  A navigation command on an object that holds a session sends      *)
(* exactly one command, on the session of the object's operating system:   *)
(* the command of the same name, except that select is sent as enter on    *)
(* Android.                                                                *)
(***************************************************************************)
C14_OneCallPerCommand ==
    (last.op \in NavCommands /\ Connected(last.pre))
        => last.calls =
             IF last.os \in {"roku", "Roku"}
             THEN << <<"roku", last.op>> >>
             ELSE << <<"android", IF last.op = "select" THEN "enter" ELSE last.op>> >>

C14_Witness ==
    /\ last.op = "select" /\ last.os = "android" /\ Connected(last.pre)
    /\ last.exc = "none" /\ last.calls = << <<"android", "enter">> >>

(***************************************************************************)
(* C15.  While the mute cache holds true or false, a read of it returns    *)
(* the cached value, sends nothing and leaves the object as it was.        *)
(***************************************************************************)
C15_CachedReadIsSilent ==
    (last.op = "muted" /\ last.pre.muted # "None")
        => /\ last.ret = last.pre.muted
           /\ last.calls = <<>>
           /\ last.exc = "none"
           /\ Now = last.pre

C15_Witness ==
    /\ last.op = "muted" /\ last.pre.muted = "True" /\ Connected(last.pre)
    /\ last.ret = "True" /\ last.calls = <<>>

(***************************************************************************)
(* C17.  In every state every object holds at most one session, and a      *)
(* session it holds is the one of its operating system.                    *)
(***************************************************************************)
C17_OneHandleOfOwnOS ==
    \A t \in AllObjects :
        /\ ~(Truthy(t.roku) /\ Truthy(t.android))
        /\ Truthy(t.roku) => (t.roku.obj = "Roku" /\ t.operating_system \in {"roku", "Roku"})
        /\ Truthy(t.android) =>
              (t.android.obj = "AndroidTVSync" /\ t.operating_system \in {"android", "Android"})

C17_Witness ==
    /\ last.op = "connect" /\ last.failed /\ last.os \in {"android", "Android"}
    /\ Truthy(Now.android) /\ ~Truthy(Now.roku)

(***************************************************************************)
(* C18.  toggle_mute() on an Android object that holds a session, with the *)
(* cache unknown, leaves the cache equal to the real mute state of the TV  *)
(* set after the toggle, provided the call returns and the property query  *)
(* it made reported that real state.                                       *)
(***************************************************************************)
C18_ToggleCacheMatchesTV ==
    (/\ last.op = "toggle_mute" /\ last.os \in {"android", "Android"}
     /\ Truthy(last.pre.android) /\ last.pre.muted = "None"
     /\ last.exc = "none" /\ last.truthful)
        => Now.muted = androidMuted

(***************************************************************************)
(* C19.  The mute cache is known only on an object that holds a session:   *)
(* a command on an object that holds none, with the cache unknown, leaves  *)
(* the cache unknown.                                                      *)
(***************************************************************************)
C19_NoCacheWithoutSession ==
    (last.op \in CommandOps /\ ~Connected(last.pre) /\ last.pre.muted = "None")
        => Now.muted = "None"

(***************************************************************************)
(* C20.  A navigation command leaves the object (cache, sessions, name,    *)
(* operating system) as it was and sends no mute-toggle, volume or         *)
(* property-query command, whatever the cache holds.                       *)
(***************************************************************************)
C20_NavigationFrame ==
    last.op \in NavCommands
        => /\ Now = last.pre
           /\ \A i \in 1..Len(last.calls) : last.calls[i][2] \notin MuteStateCalls
           /\ adbkey = last.preKey /\ androidMuted = last.preReal

C20_Witness ==
    /\ last.op \in NavCommands /\ Connected(last.pre) /\ last.pre.muted = "None"
    /\ last.exc = "none" /\ Len(last.calls) = 1

====
